---- MODULE Spec2Model ----
(***************************************************************************)
(* bad_input: a buffered line reader (BadInput, src/src/lib.rs) and the    *)
(* string destructuring family (InputString, src/src/input_string.rs).     *)
(*                                                                         *)
(* A behaviour follows one object built by a caller: either a BadInput     *)
(* over a byte source (obj = "BadInput") or an InputString (obj =          *)
(* "InputString").  Bytes are integers 0..255, text is a sequence of       *)
(* one-character strings.                                                  *)
(***************************************************************************)
EXTENDS Integers, Sequences, FiniteSets, TLC

VARIABLES
    obj,        \* which object the caller built: "BadInput" or "InputString"
    \* ---- BadInput<R> and its source ----
    input,      \* all bytes the source R will ever produce
    pos,        \* number of bytes R has handed out so far
    buf,        \* BadInput.buf, the carry-over
    old_buf,    \* try_read_to_byte's local accumulator
    pc,         \* "idle", "reading" (inside the read loop), "panicked"
    call,       \* the entry point of the call in progress
    iter,       \* TRUE while a Lines iterator borrows the BadInput
    results,    \* history: what each call that returned has returned
    pulled,     \* history: index in results of the latest Lines::next, 0 if none
    reads,      \* history: reads of the latest call that returned Ok or Err
    intr,       \* history: a read of the latest call reported Interrupted
    ioerrs,     \* history: reads so far that reported another I/O error
    \* ---- InputString and the arguments of its destructuring calls ----
    inner,      \* InputString.inner
    splitters,  \* the [&str; N] argument
    M,          \* the output arity (const M: usize)
    build,      \* "debug" (overflow checks on) or "release" (wrapping)
    fields,     \* the fields inner was concatenated from, <<>> if it was not
    primary,    \* outcome of destruct_n / split_n on inner
    attempt     \* outcome of try_destruct_n / try_split_n on inner

readerVars ==
    <<input, pos, buf, old_buf, pc, call, iter, results, pulled, reads, intr, ioerrs>>

stringVars == <<inner, splitters, M, build, fields, primary, attempt>>

vars ==
    <<obj, input, pos, buf, old_buf, pc, call, iter, results, pulled, reads, intr, ioerrs,
      inner, splitters, M, build, fields, primary, attempt>>

----------------------------------------------------------------------------
(* Bounds *)

MaxInputLen == 3
MaxCalls == 4
MaxIoErrors == 1
MaxTextLen == 4
MaxSplitters == 2
MaxArity == 4
MaxLiveCalls == 2

(* Program constants *)

LF == 10
CR == 13
ReadBufSize == 1024

\* '\n', '\r' (which also serves as the ordinary ASCII byte) and the two
\* bytes of U+00E9 (0xC3 0xA9): each of the last two is invalid UTF-8 on its
\* own or in the wrong order.
ByteValues == {LF, CR, 195, 169}

SeqsUpTo(S, n) == UNION {[1..k -> S] : k \in 0..n}

Min(a, b) == IF a < b THEN a ELSE b

----------------------------------------------------------------------------
(* Results of try_read_to_byte: Option<Result<String, ReadToCharError>> *)

NoneR == [tag |-> "None", val |-> <<>>, err |-> "-"]
OkR(s) == [tag |-> "Ok", val |-> s, err |-> "-"]
ErrR(e) == [tag |-> "Err", val |-> <<>>, err |-> e]

\* UTF-8 well-formedness as std's String::from_utf8 decides it.
RECURSIVE ValidUtf8From(_, _)
ValidUtf8From(b, i) ==
    IF i > Len(b) THEN TRUE
    ELSE LET c == b[i]
             In(k, lo, hi) == k <= Len(b) /\ b[k] >= lo /\ b[k] <= hi
             Cont(k) == In(k, 128, 191)
         IN  IF c < 128 THEN ValidUtf8From(b, i + 1)
             ELSE IF c >= 194 /\ c <= 223
                  THEN Cont(i + 1) /\ ValidUtf8From(b, i + 2)
             ELSE IF c = 224
                  THEN In(i + 1, 160, 191) /\ Cont(i + 2) /\ ValidUtf8From(b, i + 3)
             ELSE IF (c >= 225 /\ c <= 236) \/ c = 238 \/ c = 239
                  THEN Cont(i + 1) /\ Cont(i + 2) /\ ValidUtf8From(b, i + 3)
             ELSE IF c = 237
                  THEN In(i + 1, 128, 159) /\ Cont(i + 2) /\ ValidUtf8From(b, i + 3)
             ELSE IF c = 240
                  THEN In(i + 1, 144, 191) /\ Cont(i + 2) /\ Cont(i + 3)
                       /\ ValidUtf8From(b, i + 4)
             ELSE IF c >= 241 /\ c <= 243
                  THEN Cont(i + 1) /\ Cont(i + 2) /\ Cont(i + 3)
                       /\ ValidUtf8From(b, i + 4)
             ELSE IF c = 244
                  THEN In(i + 1, 128, 143) /\ Cont(i + 2) /\ Cont(i + 3)
                       /\ ValidUtf8From(b, i + 4)
             ELSE FALSE

from_utf8(b) == IF ValidUtf8From(b, 1) THEN OkR(b) ELSE ErrR("InvalidUtf8")

\* Index of the first element of s equal to p, 0 when there is none
\* (the two `for (i, c) in ... enumerate()` scans).
Position(s, p) ==
    IF \E i \in 1..Len(s) : s[i] = p
    THEN CHOOSE i \in 1..Len(s) : s[i] = p /\ \A j \in 1..(i - 1) : s[j] # p
    ELSE 0

\* Mutant of scan_carry: the carry-over is cut at its last delimiter.
scan_carry_last(b, p) ==
    LET Hits == {k \in 1..Len(b) : b[k] = p}
        i == IF Hits = {} THEN 0 ELSE CHOOSE k \in Hits : \A h \in Hits : h <= k
    IN  IF i > 0
        THEN [found |-> TRUE, ret |-> from_utf8(SubSeq(b, 1, i - 1)),
              buf |-> SubSeq(b, i + 1, Len(b)), old_buf |-> <<>>]
        ELSE [found |-> FALSE, ret |-> NoneR, buf |-> <<>>, old_buf |-> b]

\* try_read_to_byte, before the loop: take self.buf and scan it.
scan_carry(b, p) ==
    LET i == Position(b, p)
    IN  IF i > 0
        THEN [found |-> TRUE, ret |-> from_utf8(SubSeq(b, 1, i - 1)),
              buf |-> SubSeq(b, i + 1, Len(b)), old_buf |-> <<>>]
        ELSE [found |-> FALSE, ret |-> NoneR, buf |-> <<>>, old_buf |-> b]

\* Mutant of scan_read: the bytes of the chunk after the delimiter are not
\* kept as carry-over.
scan_read_droptail(old, b, read, p) ==
    LET i == Position(read, p)
    IN  IF i > 0
        THEN [found |-> TRUE, ret |-> from_utf8(old \o SubSeq(read, 1, i - 1)),
              buf |-> b, old_buf |-> <<>>]
        ELSE [found |-> FALSE, ret |-> NoneR, buf |-> b, old_buf |-> old \o read]

\* try_read_to_byte, one Ok(bytes) iteration with bytes > 0: scan the chunk.
scan_read(old, b, read, p) ==
    LET i == Position(read, p)
    IN  IF i > 0
        THEN [found |-> TRUE, ret |-> from_utf8(old \o SubSeq(read, 1, i - 1)),
              buf |-> b \o SubSeq(read, i + 1, Len(read)), old_buf |-> <<>>]
        ELSE [found |-> FALSE, ret |-> NoneR, buf |-> b, old_buf |-> old \o read]

empty_buffer(b) ==
    IF b = <<>> THEN [ret |-> NoneR, buf |-> b]
    ELSE [ret |-> from_utf8(b), buf |-> <<>>]

strip_suffix(s, c) ==
    IF Len(s) > 0 /\ s[Len(s)] = c
    THEN [some |-> TRUE, val |-> SubSeq(s, 1, Len(s) - 1)]
    ELSE [some |-> FALSE, val |-> s]

\* Mutant of StripLine: every trailing carriage return is removed.
RECURSIVE StripLine_greedy(_)
StripLine_greedy(line) ==
    IF Len(line) > 0 /\ line[Len(line)] = CR
    THEN StripLine_greedy(SubSeq(line, 1, Len(line) - 1))
    ELSE line

\* The closure try_line maps over the line.
StripLine(line) ==
    LET a == strip_suffix(line, LF)
    IN  IF ~a.some THEN line
        ELSE LET b == strip_suffix(a.val, CR)
             IN  IF ~b.some THEN a.val ELSE b.val

\* try_line after try_read_to_byte returned r and left self.buf = b.
try_line(r, b) ==
    LET e == IF r.tag = "None" THEN empty_buffer(b) ELSE [ret |-> r, buf |-> b]
        o == e.ret
    IN  [opt |-> IF o.tag = "Ok" THEN "Some" ELSE "None",
         val |-> IF o.tag = "Ok" THEN StripLine(o.val) ELSE <<>>,
         cause |-> IF o.tag = "Ok" THEN "ok"
                   ELSE IF o.tag = "None" THEN "eof" ELSE o.err,
         buf |-> e.buf]

----------------------------------------------------------------------------
(* BadInput: actions *)

\* Mutant of Return: try_line unwraps the Result, so an error panics in
\* every entry point.
Return_unwrap(kind, r, b) ==
    \E t \in {try_line(r, b)} :
        /\ buf' = t.buf
        /\ old_buf' = <<>>
        /\ IF t.opt = "None" /\ (kind = "line" \/ t.cause # "eof")
           THEN pc' = "panicked" /\ call' = kind /\ UNCHANGED <<results, pulled>>
           ELSE /\ pc' = "idle"
                /\ call' = "-"
                /\ results' = Append(results,
                                     [opt |-> t.opt, val |-> t.val, cause |-> t.cause])
                /\ pulled' = IF kind = "next" THEN Len(results) + 1 ELSE pulled

\* The call in progress ends: try_line's tail, then line()'s unwrap.  A
\* call that returns adds its value to the history (line() returning x is
\* recorded as the Some(x) it unwrapped).  A call that panics returns
\* nothing and stays the call in progress.
Return(kind, r, b) ==
    \E t \in {try_line(r, b)} :
        /\ buf' = t.buf
        /\ old_buf' = <<>>
        /\ IF kind = "line" /\ t.opt = "None"
           THEN pc' = "panicked" /\ call' = kind /\ UNCHANGED <<results, pulled>>
           ELSE /\ pc' = "idle"
                /\ call' = "-"
                /\ results' = Append(results,
                                     [opt |-> t.opt, val |-> t.val, cause |-> t.cause])
                /\ pulled' = IF kind = "next" THEN Len(results) + 1 ELSE pulled

\* Mutant of Begin: the carry-over is not scanned, the call goes to the
\* source first.
Begin_unscanned(kind) ==
    /\ obj = "BadInput"
    /\ pc = "idle"
    /\ Len(results) < MaxCalls
    /\ buf' = <<>>
    /\ old_buf' = buf
    /\ pc' = "reading"
    /\ call' = kind
    /\ reads' = 0
    /\ intr' = FALSE
    /\ UNCHANGED <<obj, input, pos, iter, ioerrs, results, pulled, stringVars>>

\* Entry of try_read_to_byte(b'\n') on behalf of `kind`.
Begin(kind) ==
    /\ obj = "BadInput"
    /\ pc = "idle"
    /\ Len(results) < MaxCalls
    /\ \E c \in {scan_carry(buf, LF)} :
           IF c.found
           THEN Return(kind, c.ret, c.buf)
           ELSE /\ buf' = c.buf
                /\ old_buf' = c.old_buf
                /\ pc' = "reading"
                /\ call' = kind
                /\ UNCHANGED <<results, pulled>>
    /\ reads' = 0
    /\ intr' = FALSE
    /\ UNCHANGED <<obj, input, pos, iter, ioerrs, stringVars>>

TryLine == ~iter /\ Begin("try_line")

Line == ~iter /\ Begin("line")

LinesNew ==
    /\ obj = "BadInput" /\ pc = "idle" /\ ~iter
    /\ iter' = TRUE
    /\ UNCHANGED <<obj, input, pos, buf, old_buf, pc, call, results, pulled, reads, intr,
                   ioerrs, stringVars>>

LinesNext == iter /\ Begin("next")

\* Mutant of LinesDrop: the iterator owns the carry-over, which dies with it.
LinesDrop_owned ==
    /\ obj = "BadInput" /\ pc = "idle" /\ iter
    /\ iter' = FALSE
    /\ buf' = <<>>
    /\ UNCHANGED <<obj, input, pos, old_buf, pc, call, results, pulled, reads, intr, ioerrs,
                   stringVars>>

LinesDrop ==
    /\ obj = "BadInput" /\ pc = "idle" /\ iter
    /\ iter' = FALSE
    /\ UNCHANGED <<obj, input, pos, buf, old_buf, pc, call, results, pulled, reads, intr,
                   ioerrs, stringVars>>

\* r.read(&mut self.read_buf) returns Ok(n), n > 0.
ReadData(n) ==
    /\ pc = "reading"
    /\ n \in 1..Min(ReadBufSize, Len(input) - pos)
    /\ \E s \in {scan_read(old_buf, buf, SubSeq(input, pos + 1, pos + n), LF)} :
           IF s.found
           THEN Return(call, s.ret, s.buf)
           ELSE /\ old_buf' = s.old_buf
                /\ buf' = s.buf
                /\ UNCHANGED <<pc, call, results, pulled>>
    /\ pos' = pos + n
    /\ reads' = reads + 1
    /\ UNCHANGED <<obj, input, iter, intr, ioerrs, stringVars>>

\* Mutant of ReadEof: the accumulated bytes are not put back into self.buf.
ReadEof_noflush ==
    /\ pc = "reading"
    /\ pos = Len(input)
    /\ Return(call, NoneR, buf)
    /\ reads' = reads + 1
    /\ UNCHANGED <<obj, input, pos, iter, intr, ioerrs, stringVars>>

\* Mutant of ReadEof: a zero-byte read is retried like an Interrupted one.
ReadEof_retry ==
    /\ pc = "reading"
    /\ pos = Len(input)
    /\ intr' = TRUE
    /\ UNCHANGED <<obj, input, pos, buf, old_buf, pc, call, iter, results, pulled, reads,
                   ioerrs, stringVars>>

\* r.read returns Ok(0): self.buf = old_buf; return None.
ReadEof ==
    /\ pc = "reading"
    /\ pos = Len(input)
    /\ Return(call, NoneR, old_buf)
    /\ reads' = reads + 1
    /\ UNCHANGED <<obj, input, pos, iter, intr, ioerrs, stringVars>>

\* Mutant of ReadInterrupted: the retry starts the accumulation afresh.
ReadInterrupted_restart ==
    /\ pc = "reading"
    /\ intr' = TRUE
    /\ old_buf' = <<>>
    /\ UNCHANGED <<obj, input, pos, buf, pc, call, iter, results, pulled, reads, ioerrs,
                   stringVars>>

\* r.read returns Err(Interrupted): continue.  Nothing limits how often.
ReadInterrupted ==
    /\ pc = "reading"
    /\ intr' = TRUE
    /\ UNCHANGED <<obj, input, pos, buf, old_buf, pc, call, iter, results, pulled, reads,
                   ioerrs, stringVars>>

\* r.read returns any other Err: return Some(Err(e.into())); old_buf is dropped.
ReadIoError ==
    /\ pc = "reading"
    /\ ioerrs < MaxIoErrors
    /\ Return(call, ErrR("IoError"), buf)
    /\ ioerrs' = ioerrs + 1
    /\ reads' = reads + 1
    /\ UNCHANGED <<obj, input, pos, iter, intr, stringVars>>

----------------------------------------------------------------------------
(* InputString: text is a sequence of one-character strings *)

\* Each of the two characters is ordinary text for a delimiter made of the
\* other.
Chars == {",", ";"}

\* The texts an InputString is built from.
Texts == SeqsUpTo(Chars, MaxTextLen)

\* The delimiters callers pass: one character, two characters, empty.
Delims == {<<",">>, <<";">>, <<",", ",">>, <<>>}

\* The delimiter lists, the empty one included.
SplitterLists == SeqsUpTo(Delims, MaxSplitters)

\* usize::MAX, the value of `M - 1` for M = 0 in a build without overflow
\* checks.  It stands for 2^64 - 1: all that matters is that no Vec reaches
\* that length.
UsizeMax == 2147483647

Unset == [op |-> "-", tag |-> "-", val |-> <<>>]

\* Mutant of split_once: split at the last occurrence (rsplit_once).
split_once_last(s, pat) ==
    LET Hits == {i \in 0..(Len(s) - Len(pat)) : SubSeq(s, i + 1, i + Len(pat)) = pat}
    IN  IF Hits = {} THEN [some |-> FALSE, part |-> <<>>, next |-> <<>>]
        ELSE LET i == CHOOSE h \in Hits : \A g \in Hits : h >= g
             IN  [some |-> TRUE, part |-> SubSeq(s, 1, i),
                  next |-> SubSeq(s, i + Len(pat) + 1, Len(s))]

\* Mutant of split_once: the delimiter stays at the head of the second part.
split_once_keepsep(s, pat) ==
    LET Hits == {i \in 0..(Len(s) - Len(pat)) : SubSeq(s, i + 1, i + Len(pat)) = pat}
    IN  IF Hits = {} THEN [some |-> FALSE, part |-> <<>>, next |-> <<>>]
        ELSE LET i == CHOOSE h \in Hits : \A g \in Hits : h <= g
             IN  [some |-> TRUE, part |-> SubSeq(s, 1, i),
                  next |-> SubSeq(s, i + 1, Len(s))]

\* str::split_once(pat): split at the first occurrence of pat.
split_once(s, pat) ==
    LET Hits == {i \in 0..(Len(s) - Len(pat)) : SubSeq(s, i + 1, i + Len(pat)) = pat}
    IN  IF Hits = {} THEN [some |-> FALSE, part |-> <<>>, next |-> <<>>]
        ELSE LET i == CHOOSE h \in Hits : \A g \in Hits : h <= g
             IN  [some |-> TRUE, part |-> SubSeq(s, 1, i),
                  next |-> SubSeq(s, i + Len(pat) + 1, Len(s))]

\* Mutant of destruct_loop: the closure's counter is never advanced, so
\* every split uses the first delimiter.
RECURSIVE destruct_loop_norotate(_, _, _, _, _, _)
destruct_loop_norotate(rest, res, case, spl, target, limit) ==
    IF Len(res) = target THEN [tag |-> "Ok", val |-> Append(res, rest)]
    ELSE IF target = UsizeMax /\ Len(res) > limit THEN [tag |-> "Abort", val |-> <<>>]
    ELSE LET s == split_once(rest, spl[case + 1])
         IN  IF ~s.some THEN [tag |-> "NotFound", val |-> <<>>]
             ELSE destruct_loop_norotate(s.next, Append(res, s.part), case,
                                         spl, target, limit)

\* The loop of destruct_n_with / try_destruct_n_with, with the closure of
\* destruct_n / try_destruct_n inlined: `case` is the closure's counter and
\* target is the value of `M - 1`.  A split that fails ends the loop
\* ("NotFound": unwrap panics in destruct_n, `?` returns None in the try
\* form).  With target = usize::MAX the loop can only end by a failing
\* split; once more than N * (len + 1) splits have succeeded every
\* delimiter is empty, no split will ever fail, and the Vec grows until the
\* allocator aborts the process.
RECURSIVE destruct_loop(_, _, _, _, _, _)
destruct_loop(rest, res, case, spl, target, limit) ==
    IF Len(res) = target THEN [tag |-> "Ok", val |-> Append(res, rest)]
    ELSE IF target = UsizeMax /\ Len(res) > limit THEN [tag |-> "Abort", val |-> <<>>]
    ELSE LET s == split_once(rest, spl[case + 1])
         IN  IF ~s.some THEN [tag |-> "NotFound", val |-> <<>>]
             ELSE destruct_loop(s.next, Append(res, s.part), (case + 1) % Len(spl),
                                spl, target, limit)

\* Shared body of destruct_n (fatal = TRUE) and try_destruct_n (fatal = FALSE).
destruct(text, spl, m, bld, fatal) ==
    IF Len(spl) = 0 THEN [tag |-> "Panic", val |-> <<>>]
    ELSE IF m = 0 /\ bld = "debug" THEN [tag |-> "Panic", val |-> <<>>]
    ELSE LET r == destruct_loop(text, <<>>, 0, spl, IF m = 0 THEN UsizeMax ELSE m - 1,
                                Len(spl) * (Len(text) + 1))
         IN  IF r.tag = "NotFound"
             THEN [tag |-> IF fatal THEN "Panic" ELSE "None", val |-> <<>>]
             ELSE IF r.tag = "Ok" /\ Len(r.val) # m
             THEN [tag |-> "Panic", val |-> <<>>]
             ELSE r

destruct_n(text, spl, m, bld) == destruct(text, spl, m, bld, TRUE)

\* Mutant of try_destruct_n: the closure unwraps as destruct_n's does.
try_destruct_n_unwrap(text, spl, m, bld) == destruct(text, spl, m, bld, TRUE)

try_destruct_n(text, spl, m, bld) == destruct(text, spl, m, bld, FALSE)

split_n(text, p, m, bld) == destruct_n(text, <<p>>, m, bld)

try_split_n(text, p, m, bld) == try_destruct_n(text, <<p>>, m, bld)

\* AddAssign: inner += format!("{rhs}"), the text of rhs appended.
add_assign(s, rhs) == s \o rhs

\* The delimiter that follows field i in the rotation.
Delim(spl, i) == spl[((i - 1) % Len(spl)) + 1]

----------------------------------------------------------------------------
(* InputString: actions *)

DestructN ==
    /\ obj = "InputString"
    /\ Len(fields) \in {0, M}
    /\ primary = Unset
    /\ primary' = [op |-> "destruct_n"] @@ destruct_n(inner, splitters, M, build)
    /\ UNCHANGED <<obj, readerVars, inner, splitters, M, build, fields, attempt>>

TryDestructN ==
    /\ obj = "InputString"
    /\ Len(fields) \in {0, M}
    /\ attempt = Unset
    /\ attempt' = [op |-> "try_destruct_n"] @@ try_destruct_n(inner, splitters, M, build)
    /\ UNCHANGED <<obj, readerVars, inner, splitters, M, build, fields, primary>>

\* split_n(p): the one delimiter is the caller's whole list.
SplitN ==
    /\ obj = "InputString"
    /\ Len(fields) \in {0, M}
    /\ primary = Unset
    /\ Len(splitters) = 1
    /\ primary' = [op |-> "split_n"] @@ split_n(inner, splitters[1], M, build)
    /\ UNCHANGED <<obj, readerVars, inner, splitters, M, build, fields, attempt>>

TrySplitN ==
    /\ obj = "InputString"
    /\ Len(fields) \in {0, M}
    /\ attempt = Unset
    /\ Len(splitters) = 1
    /\ attempt' = [op |-> "try_split_n"] @@ try_split_n(inner, splitters[1], M, build)
    /\ UNCHANGED <<obj, readerVars, inner, splitters, M, build, fields, primary>>

\* One more field of a join: from_iter's loop appends the delimiter of the
\* rotation (after the first field) and the field to the text built so far,
\* which started as InputString::new().
JoinField ==
    /\ obj = "InputString"
    /\ primary = Unset /\ attempt = Unset
    /\ Len(splitters) >= 1
    /\ Len(fields) < M
    /\ fields = <<>> => inner = <<>>
    /\ \E f \in Texts :
           LET sep == IF fields = <<>> THEN <<>> ELSE Delim(splitters, Len(fields))
               text == add_assign(add_assign(inner, sep), f)
           IN  /\ Len(text) <= MaxTextLen
               /\ inner' = text
               /\ fields' = Append(fields, f)
    /\ UNCHANGED <<obj, readerVars, splitters, M, build, primary, attempt>>

----------------------------------------------------------------------------

\* BadInput::new(reader)
new(src) ==
    /\ input = src
    /\ pos = 0
    /\ buf = <<>>
    /\ old_buf = <<>>
    /\ pc = "idle"
    /\ call = "-"
    /\ iter = FALSE
    /\ results = <<>>
    /\ pulled = 0
    /\ reads = 0
    /\ intr = FALSE
    /\ ioerrs = 0

\* InputString::from(text), about to be destructured with spl into m fields
from(text, spl, m, bld) ==
    /\ inner = text
    /\ splitters = spl
    /\ M = m
    /\ build = bld
    /\ fields = <<>>
    /\ primary = Unset
    /\ attempt = Unset

Init ==
    \/ /\ obj = "BadInput"
       /\ \E src \in SeqsUpTo(ByteValues, MaxInputLen) : new(src)
       /\ from(<<>>, <<>>, 1, "release")
    \/ /\ obj = "InputString"
       /\ new(<<>>)
       /\ \E text \in Texts, spl \in SplitterLists,
             m \in 0..MaxArity, bld \in {"debug", "release"} :
              \* the two builds differ only in `M - 1` for M = 0
              /\ m > 0 => bld = "release"
              /\ from(text, spl, m, bld)

Next ==
    \/ TryLine
    \/ Line
    \/ LinesNew
    \/ LinesNext
    \/ LinesDrop
    \/ \E n \in 1..MaxInputLen : ReadData(n)
    \/ ReadEof
    \/ ReadInterrupted
    \/ ReadIoError
    \/ DestructN
    \/ TryDestructN
    \/ SplitN
    \/ TrySplitN
    \/ JoinField

Spec == Init /\ [][Next]_vars

\* A read that returns something other than Interrupted.
ReadProgress ==
    \/ \E n \in 1..MaxInputLen : ReadData(n)
    \/ ReadEof
    \/ ReadIoError

\* The reader on its own, for the properties of progress: a BadInput and at
\* most MaxLiveCalls calls on it.
LiveInit == Init /\ obj = "BadInput"

LiveNext ==
    \/ Len(results) < MaxLiveCalls /\ TryLine
    \/ Len(results) < MaxLiveCalls /\ Line
    \/ LinesNew
    \/ Len(results) < MaxLiveCalls /\ LinesNext
    \/ LinesDrop
    \/ \E n \in 1..MaxInputLen : ReadData(n)
    \/ ReadEof
    \/ ReadInterrupted
    \/ ReadIoError

\* The source reports Interrupted only finitely often in a row: a call in
\* its read loop eventually gets another outcome.
LiveSpec == LiveInit /\ [][LiveNext]_vars /\ WF_vars(ReadProgress)

TypeOK ==
    /\ pos \in 0..Len(input)
    /\ pc \in {"idle", "reading", "panicked"}
    /\ Len(results) <= MaxCalls
    /\ obj \in {"BadInput", "InputString"}

----------------------------------------------------------------------------
(* Reference notions the properties are stated with *)

\* The positions of the newlines of s, and its lines: the text between
\* consecutive newlines, plus the text after the last one when not empty.
LFs(s) == {i \in 1..Len(s) : s[i] = LF}

NthLF(s, k) == CHOOSE i \in LFs(s) : Cardinality({j \in LFs(s) : j <= i}) = k

NumLines(s) ==
    Cardinality(LFs(s)) + (IF s # <<>> /\ s[Len(s)] # LF THEN 1 ELSE 0)

Segment(s, k) ==
    SubSeq(s, IF k = 1 THEN 1 ELSE NthLF(s, k - 1) + 1,
              IF k <= Cardinality(LFs(s)) THEN NthLF(s, k) - 1 ELSE Len(s))

DropCR(s) == IF s # <<>> /\ s[Len(s)] = CR THEN SubSeq(s, 1, Len(s) - 1) ELSE s

\* Input that is valid text, read without any I/O error so far.
CleanRun == obj = "BadInput" /\ ioerrs = 0 /\ ValidUtf8From(input, 1)

\* The results of k successive try_line calls when the source hands out
\* everything it has in its first read.
RECURSIVE OneShotRun(_, _, _, _)
OneShotRun(src, b, p, k) ==
    IF k = 0 THEN <<>>
    ELSE LET c == scan_carry(b, LF)
             s == scan_read(c.old_buf, c.buf, SubSeq(src, p + 1, Len(src)), LF)
             after == IF c.found THEN [r |-> c.ret, b |-> c.buf, p |-> p]
                      ELSE IF p < Len(src) /\ s.found
                           THEN [r |-> s.ret, b |-> s.buf, p |-> Len(src)]
                      ELSE IF p < Len(src)
                           THEN [r |-> NoneR, b |-> s.old_buf, p |-> Len(src)]
                      ELSE [r |-> NoneR, b |-> c.old_buf, p |-> p]
             t == try_line(after.r, after.b)
         IN  <<[opt |-> t.opt, val |-> t.val]>> \o OneShotRun(src, t.buf, after.p, k - 1)

Returned == [i \in 1..Len(results) |-> [opt |-> results[i].opt, val |-> results[i].val]]

----------------------------------------------------------------------------
(* Properties of BadInput *)

\* C1: chunking-invariance.  However the source fragments its bytes into
\* physical reads, the results of the calls made so far are those of the
\* same number of calls on a source that hands out everything at once.
ChunkingInvariance ==
    (obj = "BadInput" /\ ioerrs = 0 /\ pc # "reading")
        => Returned = OneShotRun(input, <<>>, 0, Len(results))

\* A two-byte character and its newline arrived in two physical reads and
\* were returned as one line.
ChunkingWitness ==
    /\ obj = "BadInput" /\ ioerrs = 0 /\ ~intr /\ pc = "idle"
    /\ input = <<195, 169, LF>>
    /\ Len(results) = 1 /\ reads = 2
    /\ results[1].opt = "Some" /\ results[1].val = <<195, 169>>

\* C2: on valid text read without I/O errors, call i returns line i for
\* every line of the input, the unterminated last fragment included (each
\* line is the text between the newlines, at most relieved of one trailing
\* carriage return), and every call after the last line returns None: the
\* final fragment is delivered once, and input ending in a newline yields no
\* extra empty line.
FinalFragmentOnce ==
    CleanRun =>
        \A i \in 1..Len(results) :
            IF i <= NumLines(input)
            THEN /\ results[i].opt = "Some"
                 /\ results[i].val \in {Segment(input, i), DropCR(Segment(input, i))}
            ELSE results[i].opt = "None"

\* "x\ny" style input: two lines, the second unterminated, then None twice.
FinalFragmentWitness ==
    /\ CleanRun /\ pc = "idle"
    /\ Len(input) = 3 /\ input[2] = LF /\ input[3] # LF
    /\ Len(results) = 4
    /\ results[2].opt = "Some" /\ results[2].val = <<input[3]>>
    /\ results[3].opt = "None" /\ results[4].opt = "None"

\* C3: CRLF normalization.  Every line try_line returns is the text between
\* the newlines with one trailing carriage return removed if there is one.
CRLFNormalized ==
    CleanRun =>
        \A i \in 1..Len(results) :
            results[i].opt = "Some" => results[i].val = DropCR(Segment(input, i))

\* C7: try_line (and the iterator) never returns None for a line that is
\* not valid UTF-8, it panics; a None that was returned means the input is
\* empty.
NoneOnlyWhenEmpty ==
    (obj = "BadInput" /\ ioerrs = 0) =>
        \A i \in 1..Len(results) :
            results[i].opt = "None" => results[i].cause = "eof"

IteratorSharesState ==
    CleanRun =>
        \A i \in 1..Len(results) :
            (pulled > 0 /\ i \in {pulled, pulled + 1} /\ i <= NumLines(input))
                => /\ results[i].opt = "Some"
                   /\ results[i].val \in {Segment(input, i), DropCR(Segment(input, i))}

\* One element pulled, the iterator dropped, and the next line, which the
\* iterator's read had brought in, returned by a direct call without a read.
IteratorSharesStateWitness ==
    /\ CleanRun /\ ~iter /\ pc = "idle"
    /\ pulled = 1 /\ Len(results) = 2 /\ reads = 0
    /\ results[1].opt = "Some"
    /\ results[2].opt = "Some" /\ results[2].val # <<>>

\* C10: once next() has returned None, a following try_line returns None
\* (so the call made after it on the BadInput returns no line).
IteratorEndMeansExhausted ==
    (obj = "BadInput" /\ ioerrs = 0 /\ pulled > 0 /\ pulled < Len(results)
        /\ results[pulled].opt = "None")
        => results[pulled + 1].opt = "None"

\* The lines returned so far, joined with '\n'.
RECURSIVE JoinLines(_)
JoinLines(rs) ==
    IF rs = <<>> THEN <<>>
    ELSE IF rs[1].opt # "Some" THEN JoinLines(Tail(rs))
    ELSE IF \E i \in 2..Len(rs) : rs[i].opt = "Some"
         THEN rs[1].val \o <<LF>> \o JoinLines(Tail(rs))
         ELSE rs[1].val

\* s without one trailing newline, if it has one.
ChopLF(s) == IF s # <<>> /\ s[Len(s)] = LF THEN SubSeq(s, 1, Len(s) - 1) ELSE s

\* s without the carriage return that ends a line: one directly before a
\* newline or at the very end.
RECURSIVE DropLineEndCRs(_)
DropLineEndCRs(s) ==
    IF s = <<>> THEN <<>>
    ELSE IF s[1] = CR /\ (Len(s) = 1 \/ s[2] = LF) THEN DropLineEndCRs(Tail(s))
    ELSE <<s[1]>> \o DropLineEndCRs(Tail(s))

\* C11: line round trip.  On valid text read without I/O errors, once every
\* line has been returned, the lines joined with '\n' are the input without
\* one trailing '\n', up to the carriage returns that end a line.
LineRoundTrip ==
    (CleanRun /\ pc # "reading" /\ Len(results) >= NumLines(input))
        => DropLineEndCRs(JoinLines(results)) = DropLineEndCRs(ChopLF(input))

\* Two lines, the second one empty, of an input that ends in two newlines:
\* the join gives back the first newline and not the second.
LineRoundTripWitness ==
    /\ CleanRun /\ pc = "idle"
    /\ Len(input) = 3 /\ input[1] # LF /\ input[2] = LF /\ input[3] = LF
    /\ Len(results) = 3 /\ results[3].opt = "None"
    /\ JoinLines(results) = SubSeq(input, 1, 2)

\* C12: a read that reports Interrupted is retried transparently.  The step
\* in which a read reports Interrupted changes nothing of the reader but the
\* record that it happened: the call stays in its loop with the same
\* accumulated bytes, the same carry-over, the same source position and the
\* same results, so a run with Interrupted results placed anywhere is the
\* run without them.
InterruptedIsTransparent ==
    [][(intr' /\ ~intr) =>
           /\ pc = "reading" /\ pc' = "reading"
           /\ UNCHANGED <<old_buf, buf, pos, call, results, pulled, reads, ioerrs>>]_vars

\* A call was interrupted and returned the two-byte character whose bytes
\* came in two reads: nothing accumulated was lost or doubled.
InterruptedWitness ==
    /\ obj = "BadInput" /\ ioerrs = 0 /\ intr /\ pc = "idle"
    /\ input = <<195, 169, LF>>
    /\ Len(results) = 1 /\ reads = 2
    /\ results[1].opt = "Some" /\ results[1].val = <<195, 169>>
    /\ buf = <<>>

\* The bytes a step of try_read_to_byte scans: the carry-over when the call
\* begins, the accumulated bytes and the chunk just read in the loop.
Pending == IF pc = "idle" THEN buf ELSE old_buf \o SubSeq(input, pos + 1, pos')

\* The step is the entry of a call or a read that returned data.
ScanStep ==
    /\ obj = "BadInput"
    /\ \/ pc = "idle" /\ (results' # results \/ pc' # "idle")
       \/ pc = "reading" /\ pos' > pos

\* C13: whenever try_read_to_byte finds the delimiter, the text it returns
\* is the pending bytes before the first delimiter, so holds no delimiter,
\* and the new carry-over is the pending bytes after that delimiter, in
\* order, further delimiters included.  (The text is seen through try_line:
\* as the line returned, at most relieved of a trailing carriage return, or
\* as the None of a line that is not valid UTF-8.)
FoundSplitsPending ==
    [][(ScanStep /\ \E k \in 1..Len(Pending) : Pending[k] = LF) =>
           LET i == CHOOSE k \in 1..Len(Pending) :
                        Pending[k] = LF /\ \A j \in 1..(k - 1) : Pending[j] # LF
               text == SubSeq(Pending, 1, i - 1)
               last == results'[Len(results')]
           IN  /\ buf' = SubSeq(Pending, i + 1, Len(Pending))
               /\ old_buf' = <<>>
               /\ pc' # "reading"
               /\ IF results' = results
                  THEN pc' = "panicked" /\ ~ValidUtf8From(text, 1)
                  ELSE /\ Len(results') = Len(results) + 1
                       /\ IF ValidUtf8From(text, 1)
                          THEN /\ last.opt = "Some"
                               /\ last.val \in {text, DropCR(text)}
                               /\ \A k \in 1..Len(last.val) : last.val[k] # LF
                          ELSE last.opt = "None" /\ last.cause = "InvalidUtf8"]_vars

\* One read brought a line and two newlines: the line was returned and the
\* second newline is the carry-over.
FoundSplitsPendingWitness ==
    /\ obj = "BadInput" /\ pc = "idle" /\ ioerrs = 0
    /\ Len(input) = 3 /\ input[1] # LF /\ input[2] = LF /\ input[3] = LF
    /\ Len(results) = 1 /\ reads = 1 /\ pos = 3
    /\ results[1].opt = "Some" /\ results[1].val = <<input[1]>>
    /\ buf = <<LF>>

\* C14: a call that begins with the delimiter in the carry-over ends
\* without reading from the source: it does not enter the read loop, the
\* source position stays, and no read is counted for it.
CarryServesWithoutRead ==
    [][(obj = "BadInput" /\ pc = "idle" /\ (results' # results \/ pc' # "idle")
          /\ \E k \in 1..Len(buf) : buf[k] = LF) =>
           /\ pc' # "reading"
           /\ pos' = pos
           /\ reads' = 0
           /\ Len(buf') < Len(buf)]_vars

\* One read of "\n\nx" has served two calls: the second returned its empty
\* line with no read of its own, and the byte after it is still carried.
CarryServesWitness ==
    /\ obj = "BadInput" /\ pc = "idle" /\ ioerrs = 0
    /\ Len(input) = 3 /\ input[1] = LF /\ input[2] = LF /\ input[3] # LF
    /\ pos = 3 /\ Len(results) = 2 /\ reads = 0
    /\ results[1].opt = "Some" /\ results[2].opt = "Some" /\ results[2].val = <<>>
    /\ buf = <<input[3]>>

\* C15: a call whose source answers Interrupted only finitely often in a
\* row leaves its read loop (it returns, or line() panics), and nothing
\* limits the retries: in the read loop one more Interrupted result is
\* always accepted, so a source that answers Interrupted forever keeps the
\* call there.
CallTerminates ==
    /\ [](pc = "reading" => ENABLED ReadInterrupted)
    /\ (pc = "reading") ~> (pc # "reading")

\* An interrupted call over "\r" that read the byte and was ended by the
\* zero-byte read.
CallTerminatesWitness ==
    /\ obj = "BadInput" /\ pc = "idle" /\ intr /\ ioerrs = 0
    /\ input = <<CR>> /\ pos = 1
    /\ Len(results) = 1 /\ reads = 2
    /\ results[1].opt = "Some" /\ results[1].val = <<CR>>

\* The bytes handed to the caller so far: every line returned and the
\* newline consumed after it.
RECURSIVE Delivered(_)
Delivered(rs) ==
    IF rs = <<>> THEN <<>>
    ELSE (IF rs[1].opt = "Some" THEN rs[1].val \o <<LF>> ELSE <<>>) \o Delivered(Tail(rs))

\* The bytes the BadInput holds: the carry-over, and inside a call the
\* bytes accumulated so far.
Held == IF pc = "reading" THEN old_buf \o buf ELSE buf

\* C16: byte conservation.  Whatever the calls so far ended in, the bytes
\* obtained from the source are, in order, the lines returned with their
\* newlines followed by the bytes still held (the final fragment, returned
\* at the end of the source, has no newline after it).
ByteConservation ==
    (obj = "BadInput" /\ pc # "panicked") =>
        \/ SubSeq(input, 1, pos) = Delivered(results) \o Held
        \/ /\ Held = <<>>
           /\ SubSeq(input, 1, pos) = ChopLF(Delivered(results))

----------------------------------------------------------------------------
(* Properties of InputString *)

\* The offset in the text at which field i starts when fs are the fields.
RECURSIVE Offset(_, _, _)
Offset(fs, spl, i) ==
    IF i = 1 THEN 0
    ELSE Offset(fs, spl, i - 1) + Len(fs[i - 1]) + Len(Delim(spl, i - 1))

OccursAt(t, d, k) == k + Len(d) <= Len(t) /\ SubSeq(t, k + 1, k + Len(d)) = d

\* fs is the decomposition of t the rotation prescribes: each field but the
\* last is followed in t by its delimiter, which does not occur in the
\* remaining text any earlier, and the last field is all the text left.
IsDestructuring(t, spl, m, fs) ==
    /\ Len(fs) = m
    /\ \A i \in 1..(m - 1) :
           /\ OccursAt(t, fs[i] \o Delim(spl, i), Offset(fs, spl, i))
           /\ \A k \in Offset(fs, spl, i)..(Offset(fs, spl, i) + Len(fs[i]) - 1) :
                  ~OccursAt(t, Delim(spl, i), k)
    /\ Offset(fs, spl, m) <= Len(t)
    /\ fs[m] = SubSeq(t, Offset(fs, spl, m) + 1, Len(t))

\* C4: with at least one delimiter and M >= 1, what destruct_n (and
\* split_n, with its one delimiter) returns is exactly M fields: each of the
\* first M-1 is the text before the first occurrence of the delimiter of
\* its turn in the remaining text, the turn advancing modulo N from 0, and
\* the M-th is all the remaining text, unsplit.
DestructFollowsRotation ==
    (obj = "InputString" /\ Len(splitters) >= 1 /\ M >= 1 /\ primary # Unset)
        => /\ primary.tag \in {"Ok", "Panic"}
           /\ primary.tag = "Ok" => IsDestructuring(inner, splitters, M, primary.val)

\* ",;,," with [",", ";"] and M = 4 gives "", "", "", ",": the rotation
\* wraps around to the first delimiter and the last field keeps the
\* delimiter left in it.
DestructFollowsRotationWitness ==
    /\ obj = "InputString"
    /\ splitters = << <<",">>, <<";">> >> /\ M = 4
    /\ inner = <<",", ";", ",", ",">>
    /\ primary.op = "destruct_n" /\ primary.tag = "Ok"
    /\ primary.val = << <<>>, <<>>, <<>>, <<",">> >>

\* Fields i.. of fs, each but the last followed by its delimiter of the
\* rotation.
RECURSIVE Reassemble(_, _, _)
Reassemble(fs, spl, i) ==
    IF i > Len(fs) THEN <<>>
    ELSE IF i = Len(fs) THEN fs[i]
    ELSE fs[i] \o Delim(spl, i) \o Reassemble(fs, spl, i + 1)

Contains(t, d) == \E k \in 0..(Len(t) - Len(d)) : OccursAt(t, d, k)

Reassembles(out) ==
    (out.tag = "Ok" /\ M >= 1) =>
        /\ Len(out.val) = M
        /\ Reassemble(out.val, splitters, 1) = inner
        /\ \A i \in 1..(M - 1) :
               Delim(splitters, i) # <<>> => ~Contains(out.val[i], Delim(splitters, i))

\* C17: reassembly.  Whenever destruct_n / try_destruct_n (or split_n /
\* try_split_n) succeeds with M >= 1 fields, the fields put back together
\* with the delimiters of the rotation are the text, and no field but the
\* last contains its delimiter when that delimiter is not empty.
Reassembly ==
    obj = "InputString" => Reassembles(primary) /\ Reassembles(attempt)

\* try_destruct_n has split ";,,;" with [",", ";"] into ";", "," and "".
ReassemblyWitness ==
    /\ obj = "InputString" /\ M = 3
    /\ splitters = << <<",">>, <<";">> >>
    /\ inner = <<";", ",", ",", ";">>
    /\ attempt.op = "try_destruct_n" /\ attempt.tag = "Ok"
    /\ attempt.val = << <<";">>, <<",">>, <<>> >>

\* C5 as stated: destruct_n on the join of any M fields with the rotating
\* delimiters returns those M fields.
RoundTrip ==
    (obj = "InputString" /\ M >= 1 /\ Len(fields) = M /\ primary.op = "destruct_n")
        => primary.tag = "Ok" /\ primary.val = fields

\* Field i followed by its delimiter holds no earlier occurrence of that
\* delimiter, for every field but the last.
Unambiguous(fs, spl) ==
    \A i \in 1..(Len(fs) - 1) :
        \A k \in 0..(Len(fs[i]) - 1) : ~OccursAt(fs[i] \o Delim(spl, i), Delim(spl, i), k)

\* C5, amended: the round trip holds when, for every field but the last,
\* the field followed by its delimiter contains no occurrence of that
\* delimiter before the appended one.
RoundTripUnambiguous ==
    (obj = "InputString" /\ M >= 1 /\ Len(fields) = M /\ primary.op = "destruct_n"
        /\ Unambiguous(fields, splitters))
        => primary.tag = "Ok" /\ primary.val = fields

\* Three fields joined with two different delimiters and recovered, the
\* last one containing a delimiter.
RoundTripWitness ==
    /\ obj = "InputString" /\ M = 3
    /\ Len(splitters) = 2 /\ splitters[1] # splitters[2]
    /\ Len(fields) = M /\ Unambiguous(fields, splitters)
    /\ fields[1] # <<>> /\ fields[3] = splitters[1]
    /\ primary.op = "destruct_n" /\ primary.tag = "Ok" /\ primary.val = fields

====
